---- MODULE Spec2Model ----
(***************************************************************************)
(* Wildfire detection utilities: the batch image-acquisition pipeline      *)
(* (lib/image_processor.py, lib/utils.py) and the local preprocessing      *)
(* pipeline (lib/image_preprocessor.py).                                   *)
(***************************************************************************)
EXTENDS Integers, Sequences, FiniteSets, TLC

\* ------------------------------------------------------------------ bounds
\* Largest image height and width handed to split_into_patches.
MaxDim == 5
\* Largest patch_size.
MaxPatch == 3
\* Most files in one category folder.
MaxFiles == 2
\* Longest fire_df handed to process_event_batch.
MaxRecords == 3
\* Largest max_workers handed to process_event_batch.
MaxWorkers == 2

VARIABLES
    fire_df,      \* the rows of the DataFrame, in iterrows() order
    output_dir,   \* the output_dir argument
    max_workers,  \* the max_workers argument
    bpc,          \* where process_event_batch is: "run", "unwinding", "returned", "raised"
    futures,      \* per submitted row: the state of its process_single_event invocation
    executor,     \* the pool: "running", or "shutdown" once the with block has exited
    queue,        \* the executor's work queue (FIFO of future indexes)
    yielded,      \* the futures as_completed has yielded
    results,      \* the list being built from f.result()
    dirs,         \* the directories that exist
    files,        \* path -> content of the files that exist
    image,        \* split_into_patches: the shape of its image argument
    patch_size,   \* the patch_size argument
    patches,      \* split_into_patches: the list it returned
    ppc,          \* split_into_patches: "call" or "done"
    listing,      \* preprocess_and_patch: category -> os.listdir of its folder
    cat,          \* preprocess_and_patch: index of the category of the outer loop
    pos,          \* preprocess_and_patch: index of the file of the inner loop
    made,         \* preprocess_and_patch: the output folders created
    tiles,        \* preprocess_and_patch: the tile files written
    skipped,      \* preprocess_and_patch: the "Skipping unreadable image" lines printed
    pre_pc        \* preprocess_and_patch: "category", "files", "done" or "crashed"

batchVars ==
    <<fire_df, output_dir, max_workers, bpc, executor, futures, queue, yielded, results, dirs, files>>

patchVars == <<image, patches, ppc>>

preVars == <<listing, cat, pos, made, tiles, skipped, pre_pc>>

vars == <<batchVars, patch_size, patchVars, preVars>>

notBatch == <<patch_size, patchVars, preVars>>
notPatch == <<batchVars, preVars>>
notPre == <<batchVars, patchVars>>

\* ------------------------------------------------------------ input values
\* A float is kept as sign, integer part and one fractional digit.
Float(neg, whole, frac) == [neg |-> neg, whole |-> whole, frac |-> frac]

\* An acq_date cell: text pandas can parse (a day of January 2020 and an hour),
\* or text it cannot.
Stamp(day, hour) == [parseable |-> TRUE, day |-> day, hour |-> hour]
BadStamp == [parseable |-> FALSE, day |-> 0, hour |-> 0]

Row(lat, lon, d) == [latitude |-> lat, longitude |-> lon, acq_date |-> d]

RowSet ==
    { Row(Float(FALSE, 1, 5), Float(TRUE, 2, 5), Stamp(9, 0)),
      Row(Float(FALSE, 1, 5), Float(TRUE, 2, 5), Stamp(9, 12)),
      Row(Float(TRUE, 1, 5), Float(FALSE, 2, 5), Stamp(9, 0)),
      Row(Float(FALSE, 1, 5), Float(TRUE, 2, 5), BadStamp),
      [latitude |-> Float(FALSE, 1, 5), acq_date |-> Stamp(9, 0)] }

OutputDirs == {"out"}

\* --------------------------------------------------------------- formatting
Digit(d) == CASE d = 0 -> "0" [] d = 1 -> "1" [] d = 2 -> "2" [] d = 3 -> "3"
              [] d = 4 -> "4" [] d = 5 -> "5" [] d = 6 -> "6" [] d = 7 -> "7"
              [] d = 8 -> "8" [] d = 9 -> "9"

RECURSIVE NatStr(_)
NatStr(n) == IF n < 10 THEN Digit(n) ELSE NatStr(n \div 10) \o Digit(n % 10)

\* str() of a float, as the f-string formats row['latitude'] and row['longitude'].
FloatStr(f) == (IF f.neg THEN "-" ELSE "") \o NatStr(f.whole) \o "." \o NatStr(f.frac)

\* pd.to_datetime(...).date(): the calendar day, the time of day dropped.
ToDate(stamp) == stamp.day

\* str() of a datetime.date.
DateStr(day) == "2020-01-" \o (IF day < 10 THEN "0" ELSE "") \o NatStr(day)

\* Mutant of Filename: the date is left out of the name.
FilenameNoDate(row) ==
    FloatStr(row.latitude) \o "_" \o FloatStr(row.longitude) \o ".png"

\* f"{row['latitude']}_{row['longitude']}_{acq_date.date()}.png"
Filename(row) ==
    FloatStr(row.latitude) \o "_" \o FloatStr(row.longitude) \o "_"
        \o DateStr(ToDate(row.acq_date)) \o ".png"

\* os.path.join(output_dir, filename), filename being relative.
PathJoin(dir, name) == dir \o "/" \o name

\* ------------------------------------------------------------------ results
NoneV == [tag |-> "None", path |-> ""]
PathV(p) == [tag |-> "path", path |-> p]
RaisedV == [tag |-> "raised", path |-> ""]


\* --------------------------------------------------- process_single_event
\* A future as executor.submit creates it. pc is where its invocation of
\* process_single_event is; ret is what the invocation ended with. The other
\* fields record what the invocation has met and done: the backend's answer to
\* the collection query, the exception its handler caught, the HTTP response,
\* the outcome of the write, and how often it asked for a URL, sent a GET and
\* touched the file system.
NewFuture ==
    [pc |-> "pending", ret |-> NoneV, imagery |-> "", exc |-> "", fetch |-> "",
     save |-> "", urls |-> 0, gets |-> 0, fsops |-> 0]

Done(f, val) == [f EXCEPT !.pc = "done", !.ret = val]

\* Mutant of ExceptException: a handler for OSError alone.
ExceptOSErrorOnly(exc) == IF exc = "OSError" THEN NoneV ELSE RaisedV

\* The handler of process_single_event: `except Exception` takes every
\* exception kind, prints it and returns None.
ExceptException(exc) == NoneV

\* An exception raised inside the try block of process_single_event.
Raise(f, exc) == Done([f EXCEPT !.exc = exc], ExceptException(exc))

\* The invocations that occupy a worker thread.
InProgress == {i \in DOMAIN futures : futures[i].pc \notin {"pending", "done"}}

Hung == {i \in DOMAIN futures : futures[i].pc = "hung"}

\* Mutant of WorkerFree: a pool that runs one work item at a time whatever
\* max_workers is.
OneThreadOnly == InProgress = {}

\* The pool starts at most max_workers threads, each running one work item at
\* a time.
WorkerFree == Cardinality(InProgress) < max_workers

\* row['longitude'], row['latitude'], row['acq_date'] and pd.to_datetime: the
\* exception they raise, "" when none.
ReadRow(row) ==
    IF ~({"longitude", "latitude", "acq_date"} \subseteq DOMAIN row) THEN "KeyError"
    ELSE IF ~row.acq_date.parseable THEN "ValueError"
    ELSE ""

\* os.path.join(output_dir, filename) of future i's row.
OutputPath(i) == PathJoin(output_dir, Filename(fire_df[i]))

\* A worker thread takes the oldest queued work item and runs the invocation up
\* to its first network call: the row's fields are read and the date parsed.
Start(i) ==
    /\ queue # <<>>
    /\ i = Head(queue)
    /\ WorkerFree
    /\ queue' = Tail(queue)
    /\ futures' = [futures EXCEPT ![i] =
            IF ReadRow(fire_df[i]) # "" THEN Raise(@, ReadRow(fire_df[i]))
            ELSE [@ EXCEPT !.pc = "query"]]
    /\ UNCHANGED <<fire_df, output_dir, max_workers, bpc, executor, yielded, results, dirs, files, notBatch>>

\* What the imagery backend may answer to the collection query.
QueryAnswers == {"image", "empty", "error", "hang"}

\* Mutant of NotImage: the test for an empty result is missing.
NotImageNever(ans) == FALSE

\* `if not image:` after get_satellite_collection, which returns (None, None)
\* when the filtered collection is empty.
NotImage(ans) == ans = "empty"

\* get_satellite_collection and the test of its result.
Query(i) ==
    /\ i \in DOMAIN futures
    /\ futures[i].pc = "query"
    /\ \E ans \in QueryAnswers :
         futures' = [futures EXCEPT ![i] =
              CASE ans = "hang"  -> [@ EXCEPT !.pc = "hung"]
                [] ans = "error" -> Raise(@, "EEException")
                [] OTHER ->
                     IF NotImage(ans) THEN Done([@ EXCEPT !.imagery = ans], NoneV)
                     ELSE [@ EXCEPT !.imagery = ans, !.pc = "url"]]
    /\ UNCHANGED <<fire_df, output_dir, max_workers, bpc, executor, queue, yielded, results, dirs, files, notBatch>>

UrlAnswers == {"url", "error", "hang"}

\* generate_download_url: image.getThumbURL(...).
GetUrl(i) ==
    /\ i \in DOMAIN futures
    /\ futures[i].pc = "url"
    /\ \E ans \in UrlAnswers :
         LET f == [futures[i] EXCEPT !.urls = @ + 1]
         IN futures' = [futures EXCEPT ![i] =
              CASE ans = "url"   -> [f EXCEPT !.pc = "download"]
                [] ans = "error" -> Raise(f, "EEException")
                [] ans = "hang"  -> [f EXCEPT !.pc = "hung"]]
    /\ UNCHANGED <<fire_df, output_dir, max_workers, bpc, executor, queue, yielded, results, dirs, files, notBatch>>

\* What download_image hands back: None, a byte string (data = 0 is the empty
\* string b''), or an exception it let through.
NoBytes == [isNone |-> TRUE, data |-> 0, raised |-> FALSE]
Bytes(n) == [isNone |-> FALSE, data |-> n, raised |-> FALSE]
Escaped == [isNone |-> TRUE, data |-> 0, raised |-> TRUE]
Truthy(c) == ~c.isNone /\ c.data # 0

\* What requests.get may do: a 2xx answer with a body, a 2xx answer with an
\* empty body, a non-2xx status, a network error, or no answer at all.
Responses == {"ok", "empty_body", "http404", "conn_error", "hang"}

FetchFailures == {"http404", "conn_error"}

\* Mutant of DownloadImage: no raise_for_status, so the body of an error
\* answer is returned as the image.
DownloadImageNoStatusCheck(resp, n) ==
    CASE resp \in {"ok", "http404"} -> Bytes(n)
      [] resp = "empty_body" -> Bytes(0)
      [] resp = "conn_error" -> NoBytes

\* download_image: raise_for_status raises HTTPError on a non-2xx status; it
\* and every other RequestException are caught and None is returned.
DownloadImage(resp, n) ==
    CASE resp = "ok" -> Bytes(n)
      [] resp = "empty_body" -> Bytes(0)
      [] resp \in FetchFailures -> NoBytes

\* download_image(url) and `if image_content:`.
Download(i) ==
    /\ i \in DOMAIN futures
    /\ futures[i].pc = "download"
    /\ \E resp \in Responses :
         LET f == [futures[i] EXCEPT !.gets = @ + 1, !.fetch = resp]
         IN futures' = [futures EXCEPT ![i] =
              IF resp = "hang" THEN [f EXCEPT !.pc = "hung"]
              ELSE IF DownloadImage(resp, i).raised THEN Raise(f, "RequestException")
              ELSE IF Truthy(DownloadImage(resp, i)) THEN [f EXCEPT !.pc = "makedirs"]
              ELSE Done(f, NoneV)]
    /\ UNCHANGED <<fire_df, output_dir, max_workers, bpc, executor, queue, yielded, results, dirs, files, notBatch>>

\* save_image, first half: os.makedirs(output_dir, exist_ok=True), outside the
\* try of save_image, so its OSError reaches process_single_event's handler.
Makedirs(i) ==
    /\ i \in DOMAIN futures
    /\ futures[i].pc = "makedirs"
    /\ \E ok \in BOOLEAN :
         LET f == [futures[i] EXCEPT !.fsops = @ + 1]
         IN /\ futures' = [futures EXCEPT ![i] =
                 IF ok THEN [f EXCEPT !.pc = "write"]
                 ELSE Raise([f EXCEPT !.save = "makedirs_failed"], "OSError")]
            /\ dirs' = IF ok THEN dirs \cup {output_dir} ELSE dirs
    /\ UNCHANGED <<fire_df, output_dir, max_workers, bpc, executor, queue, yielded, results, files, notBatch>>

WriteOutcomes == {"ok", "open_failed", "write_failed"}

\* The file system after open(path, 'wb') and f.write(content): open creates
\* or truncates the file, so a failed write leaves it empty.
WriteFile(fs, path, content, outcome) ==
    CASE outcome = "open_failed" -> fs
      [] outcome = "write_failed" ->
           [p \in DOMAIN fs \cup {path} |-> IF p = path THEN Bytes(0) ELSE fs[p]]
      [] outcome = "ok" ->
           [p \in DOMAIN fs \cup {path} |-> IF p = path THEN content ELSE fs[p]]

\* What process_single_event returns once save_image has returned: the OSError
\* of open/write is caught and printed inside save_image, which returns
\* normally either way, and `return output_path` follows.
AfterSave(path, outcome) == PathV(path)

\* save_image, second half, and the return of process_single_event.
Write(i) ==
    /\ i \in DOMAIN futures
    /\ futures[i].pc = "write"
    /\ \E outcome \in WriteOutcomes :
         LET f == [futures[i] EXCEPT !.fsops = @ + 1, !.save = outcome]
         IN /\ files' = WriteFile(files, OutputPath(i), Bytes(i), outcome)
            /\ futures' = [futures EXCEPT ![i] = Done(f, AfterSave(OutputPath(i), outcome))]
    /\ UNCHANGED <<fire_df, output_dir, max_workers, bpc, executor, queue, yielded, results, dirs, notBatch>>

\* ---------------------------------------------------- process_event_batch
\* executor.submit(process_single_event, row, output_dir) for the next row.
Submit ==
    /\ bpc = "run"
    /\ Len(futures) < Len(fire_df)
    /\ futures' = Append(futures, NewFuture)
    /\ queue' = Append(queue, Len(futures) + 1)
    /\ UNCHANGED <<fire_df, output_dir, max_workers, bpc, executor, yielded, results, dirs, files, notBatch>>

\* Mutant of Gather: only the paths are kept.
GatherPathsOnly(res, val) == IF val = NoneV THEN res ELSE Append(res, val)

\* The list comprehension keeps what f.result() returns.
Gather(res, val) == Append(res, val)

\* as_completed yields a finished future that it has not yielded yet, and
\* f.result() returns its value or raises its exception.
Collect(i) ==
    /\ bpc = "run"
    /\ Len(futures) = Len(fire_df)
    /\ i \in DOMAIN futures
    /\ futures[i].pc = "done"
    /\ i \notin yielded
    /\ yielded' = yielded \cup {i}
    /\ IF futures[i].ret = RaisedV
       THEN bpc' = "unwinding" /\ results' = results
       ELSE bpc' = bpc /\ results' = Gather(results, futures[i].ret)
    /\ UNCHANGED <<fire_df, output_dir, max_workers, executor, futures, queue, dirs, files, notBatch>>

\* Mutant of Return: the call returns once every row is submitted, neither
\* draining as_completed nor joining the worker threads.
ReturnWithoutWaiting ==
    /\ bpc = "run"
    /\ Len(futures) = Len(fire_df)
    /\ executor' = "shutdown"
    /\ bpc' = "returned"
    /\ UNCHANGED <<fire_df, output_dir, max_workers, futures, queue, yielded, results, dirs, files, notBatch>>

\* as_completed is exhausted (or f.result() raised) and the with block exits:
\* executor.shutdown(wait=True) joins the worker threads, which end once the
\* queue is empty and no invocation is running.
Return ==
    /\ IF bpc = "unwinding" THEN TRUE
       ELSE bpc = "run" /\ Len(futures) = Len(fire_df) /\ yielded = DOMAIN futures
    /\ queue = <<>>
    /\ InProgress = {}
    /\ executor' = "shutdown"
    /\ bpc' = IF bpc = "unwinding" THEN "raised" ELSE "returned"
    /\ UNCHANGED <<fire_df, output_dir, max_workers, futures, queue, yielded, results, dirs, files, notBatch>>

\* The DataFrames of at most MaxRecords rows drawn from rows.
Frames(rows) == UNION {[1..n -> rows] : n \in 0..MaxRecords}

\* The arguments of process_event_batch and the state at its entry.
BatchInit(rows) ==
    /\ fire_df \in Frames(rows)
    /\ output_dir \in OutputDirs
    /\ max_workers \in 1..MaxWorkers
    /\ bpc = "run"
    /\ executor = "running"
    /\ futures = <<>>
    /\ queue = <<>>
    /\ yielded = {}
    /\ results = <<>>
    /\ dirs = {}
    /\ files = <<>>

Next ==
    \/ Submit
    \/ \E i \in 1..MaxRecords : Start(i)
    \/ \E i \in 1..MaxRecords : Query(i)
    \/ \E i \in 1..MaxRecords : GetUrl(i)
    \/ \E i \in 1..MaxRecords : Download(i)
    \/ \E i \in 1..MaxRecords : Makedirs(i)
    \/ \E i \in 1..MaxRecords : Write(i)
    \/ \E i \in 1..MaxRecords : Collect(i)
    \/ Return

\* ------------------------------------------------------ split_into_patches
Min(a, b) == IF a < b THEN a ELSE b

\* list(range(0, stop, step)), step >= 1.
Range(stop, step) == [k \in 1..((stop + step - 1) \div step) |-> (k - 1) * step]

\* image[y:y + p, x:x + p] of an image of shape (h, w): numpy clips the slice
\* to the image.
Slice(h, w, y, x, p) ==
    [y |-> y, x |-> x, h |-> Min(y + p, h) - y, w |-> Min(x + p, w) - x]

\* Mutant of Complete: incomplete patches are kept.
CompleteAlways(patch, p) == TRUE

\* `if patch.shape[:2] == (patch_size, patch_size)`
Complete(patch, p) == patch.h = p /\ patch.w = p

\* The patches in the order of the two loops, rows outermost.
SplitIntoPatches(h, w, p) ==
    LET ys == Range(h, p)
        xs == Range(w, p)
        all == [k \in 1..(Len(ys) * Len(xs)) |->
                  Slice(h, w, ys[((k - 1) \div Len(xs)) + 1], xs[((k - 1) % Len(xs)) + 1], p)]
    IN SelectSeq(all, LAMBDA t : Complete(t, p))

Split ==
    /\ ppc = "call"
    /\ patches' = SplitIntoPatches(image.h, image.w, patch_size)
    /\ ppc' = "done"
    /\ UNCHANGED <<image, patch_size, notPatch>>

\* ---------------------------------------------------- preprocess_and_patch
Categories == <<"fire", "no_fire">>

File(base, ext, readable, h, w) ==
    [base |-> base, ext |-> ext, readable |-> readable, h |-> h, w |-> w]

FileSet ==
    { File("a", ".png", TRUE, 4, 5),
      File("b", ".JPG", FALSE, 0, 0),
      File("c", ".txt", TRUE, 0, 0),
      File("d", ".jpeg", TRUE, 2, 2) }

\* str.lower() of the extensions in use.
Lower(ext) == IF ext = ".JPG" THEN ".jpg" ELSE ext

\* filename.lower().endswith((".png", ".jpg", ".jpeg"))
AllowedExt(file) == Lower(file.ext) \in {".png", ".jpg", ".jpeg"}

\* cv2.imread: None for a file it cannot decode.
Imread(file) ==
    IF file.readable THEN [isNone |-> FALSE, h |-> file.h, w |-> file.w]
    ELSE [isNone |-> TRUE, h |-> 0, w |-> 0]

\* Mutant of SkipUnreadable: the None test is missing.
SkipNever(img) == FALSE

\* `if image is None:` ... `continue`
SkipUnreadable(img) == img.isNone

\* f"{os.path.splitext(filename)[0]}_patch_{i}.png"
OutName(file, i) == file.base \o "_patch_" \o NatStr(i) \o ".png"

\* os.makedirs(dst, exist_ok=True) at the top of the outer loop.
EnterCategory ==
    /\ pre_pc = "category"
    /\ made' = made \cup {Categories[cat]}
    /\ pos' = 1
    /\ pre_pc' = "files"
    /\ UNCHANGED <<listing, patch_size, cat, tiles, skipped, notPre>>

\* One pass of the inner loop: the extension test, imread, the None test,
\* apply_clahe_rgb (which raises on None), split_into_patches and the imwrite
\* of every patch.
ProcessFile ==
    /\ pre_pc = "files"
    /\ pos <= Len(listing[Categories[cat]])
    /\ LET file == listing[Categories[cat]][pos]
           img == Imread(file)
           n == Len(SplitIntoPatches(img.h, img.w, patch_size))
       IN IF ~AllowedExt(file)
          THEN pos' = pos + 1 /\ UNCHANGED <<tiles, skipped, pre_pc>>
          ELSE IF SkipUnreadable(img)
          THEN /\ skipped' = skipped \cup {<<cat, pos>>}
               /\ pos' = pos + 1
               /\ UNCHANGED <<tiles, pre_pc>>
          ELSE IF img.isNone
          THEN pre_pc' = "crashed" /\ UNCHANGED <<tiles, skipped, pos>>
          ELSE /\ tiles' = tiles \cup
                    {[category |-> Categories[cat], name |-> OutName(file, i), from |-> <<cat, pos>>] :
                        i \in 1..n}
               /\ pos' = pos + 1
               /\ UNCHANGED <<skipped, pre_pc>>
    /\ UNCHANGED <<listing, patch_size, cat, made, notPre>>

\* The inner loop is exhausted: on to the next category, or print("Done").
LeaveCategory ==
    /\ pre_pc = "files"
    /\ pos > Len(listing[Categories[cat]])
    /\ IF cat = Len(Categories)
       THEN pre_pc' = "done" /\ cat' = cat
       ELSE pre_pc' = "category" /\ cat' = cat + 1
    /\ UNCHANGED <<listing, patch_size, pos, made, tiles, skipped, notPre>>

\* os.listdir: at most MaxFiles entries, no name twice.
Listings ==
    {l \in UNION {[1..n -> FileSet] : n \in 0..MaxFiles} :
        \A j, k \in DOMAIN l : j # k => l[j] # l[k]}

\* ----------------------------------------------------------- specifications
BatchIdle ==
    /\ fire_df = <<>> /\ output_dir = "out" /\ max_workers = 1 /\ bpc = "idle"
    /\ executor = "none" /\ futures = <<>> /\ queue = <<>> /\ yielded = {}
    /\ results = <<>> /\ dirs = {} /\ files = <<>>

PatchIdle == image = [h |-> 0, w |-> 0] /\ patches = <<>> /\ ppc = "idle"

PreIdle ==
    /\ listing = [c \in {"fire", "no_fire"} |-> <<>>]
    /\ cat = 1 /\ pos = 1 /\ made = {} /\ tiles = {} /\ skipped = {} /\ pre_pc = "idle"

\* process_event_batch(fire_df, output_dir, max_workers)
Init == BatchInit(RowSet) /\ patch_size = 1 /\ PatchIdle /\ PreIdle

Spec == Init /\ [][Next]_vars

\* The same with the scheduling the threads get: a worker thread that can take
\* or continue a work item does so, and so does the calling thread. A network
\* call that never answers is the "hang" answer, after which the invocation has
\* no step left.
Fairness ==
    /\ WF_vars(Submit)
    /\ WF_vars(Return)
    /\ \A i \in 1..MaxRecords :
         /\ WF_vars(Start(i))
         /\ WF_vars(Query(i))
         /\ WF_vars(GetUrl(i))
         /\ WF_vars(Download(i))
         /\ WF_vars(Makedirs(i))
         /\ WF_vars(Write(i))
         /\ WF_vars(Collect(i))

\* Scheduling does not read a row beyond whether its fields can be read: the
\* fair specification draws the rows from one good row and one bad one.
FairRowSet ==
    { Row(Float(FALSE, 1, 5), Float(TRUE, 2, 5), Stamp(9, 0)),
      Row(Float(FALSE, 1, 5), Float(TRUE, 2, 5), BadStamp) }

FairInit == BatchInit(FairRowSet) /\ patch_size = 1 /\ PatchIdle /\ PreIdle

FairSpec == FairInit /\ [][Next]_vars /\ Fairness

\* split_into_patches(image, patch_size)
PatchInit ==
    /\ BatchIdle /\ PreIdle
    /\ image \in [h : 0..MaxDim, w : 0..MaxDim]
    /\ patch_size \in 1..MaxPatch
    /\ patches = <<>>
    /\ ppc = "call"

PatchNext == Split

PatchSpec == PatchInit /\ [][PatchNext]_vars

\* preprocess_and_patch(input_dir, output_dir, categories, patch_size)
PreInit ==
    /\ BatchIdle /\ PatchIdle
    /\ listing \in [{"fire", "no_fire"} -> Listings]
    /\ patch_size \in 1..MaxPatch
    /\ cat = 1 /\ pos = 1 /\ made = {} /\ tiles = {} /\ skipped = {}
    /\ pre_pc = "category"

PreNext ==
    \/ EnterCategory
    \/ ProcessFile
    \/ LeaveCategory

PreSpec == PreInit /\ [][PreNext]_vars


\* ------------------------------------------------------------------ claims
Futures == DOMAIN futures

Finished(i) == futures[i].pc = "done"

PathCount == Cardinality({k \in DOMAIN results : results[k].tag = "path"})
NoneCount == Cardinality({k \in DOMAIN results : results[k] = NoneV})

\* The scenario of three records: one with no imagery, one whose fetch is
\* answered 404, one saved.
ThreeRecordScenario ==
    /\ Len(fire_df) = 3
    /\ \E i, j, k \in Futures :
         /\ futures[i].imagery = "empty"
         /\ futures[j].fetch = "http404"
         /\ futures[k].save = "ok"

\* C1: when process_event_batch has returned, its list holds exactly one
\* result per row of fire_df, each a path or None, and the list is the
\* futures' results in some order; in the three-record scenario (empty imagery,
\* HTTP 404, success) that is exactly one path and two None.
C1_OneResultPerRecord ==
    bpc = "returned" =>
        /\ Len(results) = Len(fire_df)
        /\ \A k \in DOMAIN results : results[k].tag \in {"None", "path"}
        /\ \A i \in Futures :
             Cardinality({k \in DOMAIN results : results[k] = futures[i].ret})
                 = Cardinality({j \in Futures : futures[j].ret = futures[i].ret})
        /\ ThreeRecordScenario => PathCount = 1 /\ NoneCount = 2

\* The three-record scenario has returned, the successful record being the
\* first row and the workers fewer than the rows.
C1_Witness ==
    /\ bpc = "returned"
    /\ ThreeRecordScenario
    /\ futures[1].save = "ok"
    /\ max_workers = 2
    /\ results[3].tag = "path"

Failed(i) ==
    \/ futures[i].exc # ""
    \/ futures[i].imagery = "empty"
    \/ futures[i].fetch \in FetchFailures \cup {"empty_body"}

\* C2: no invocation of process_single_event ends by raising, whichever step
\* failed: a finished invocation that met an exception returned None, every
\* finished invocation returned None or a path, so process_event_batch never
\* raises; and an invocation that met no failure returned the path of its own
\* row whatever the other invocations met.
C2_NoExceptionEscapes ==
    /\ bpc \notin {"unwinding", "raised"}
    /\ \A i \in Futures :
         /\ futures[i].ret.tag \in {"None", "path"}
         /\ futures[i].exc # "" => Finished(i) /\ futures[i].ret = NoneV
         /\ Finished(i) /\ ~Failed(i) => futures[i].ret = PathV(OutputPath(i))

\* A batch has returned in which one invocation failed on the row's fields, one
\* in os.makedirs, and one succeeded.
C2_Witness ==
    /\ bpc = "returned"
    /\ \E i, j, k \in Futures :
         /\ futures[i].exc \in {"KeyError", "ValueError"}
         /\ futures[j].exc = "OSError"
         /\ futures[k].save = "ok" /\ futures[k].ret.tag = "path"

\* C3: an invocation whose filtered imagery collection is empty has returned
\* None and has asked for no URL, sent no GET and touched no file or directory;
\* the file system changes only through the operations the invocations count.
C3_EmptyImageryNoEffect ==
    /\ \A i \in Futures :
         futures[i].imagery = "empty" =>
             /\ Finished(i) /\ futures[i].ret = NoneV
             /\ futures[i].urls = 0 /\ futures[i].gets = 0 /\ futures[i].fsops = 0
             /\ futures[i].save = ""
    /\ (\A i \in Futures : futures[i].fsops = 0) => files = <<>> /\ dirs = {}

\* Every row of a returned batch of two had no imagery, and nothing is on disk.
C3_Witness ==
    /\ bpc = "returned"
    /\ Len(fire_df) = 2
    /\ \A i \in Futures : futures[i].imagery = "empty"
    /\ files = <<>> /\ dirs = {}

\* C4 (as stated): an invocation that returned a path has written its bytes to
\* the file at that path; a failed open or write is not reported as a path.
C4_PathOnlyOnSuccess ==
    \A i \in Futures :
        Finished(i) /\ futures[i].ret.tag = "path" =>
            /\ futures[i].save = "ok"
            /\ futures[i].ret.path \in DOMAIN files

Key(row) == <<row.latitude, row.longitude, ToDate(row.acq_date)>>

\* Rows over a wider grid of coordinates and days than RowSet, for the file
\* name alone.
WideFloats ==
    {Float(neg, whole, frac) : neg \in BOOLEAN, whole \in {0, 1, 11}, frac \in {0, 1}}

WideRows ==
    {Row(lat, lon, Stamp(day, hour)) :
        lat \in WideFloats, lon \in WideFloats, day \in {1, 11}, hour \in {0, 12}}

FilenameByKey ==
    \A r1, r2 \in WideRows : (Filename(r1) = Filename(r2)) <=> (Key(r1) = Key(r2))

\* The invocations that reached open(path, 'wb') successfully.
Opened == {i \in Futures : futures[i].save \in {"ok", "write_failed"}}

\* C6: two rows get the same path exactly when they agree on latitude,
\* longitude and calendar date; every file on disk is at the path of a row
\* whose invocation opened it, there is one file per key opened and never
\* two, and its content is that of an invocation with that key.
C6_PathByKey ==
    /\ FilenameByKey
    /\ \A i, j \in Opened :
         (OutputPath(i) = OutputPath(j)) <=> (Key(fire_df[i]) = Key(fire_df[j]))
    /\ DOMAIN files = {OutputPath(i) : i \in Opened}
    /\ Cardinality(DOMAIN files) = Cardinality({Key(fire_df[i]) : i \in Opened})
    /\ \A i \in Futures :
         futures[i].save = "ok" =>
             /\ futures[i].ret = PathV(OutputPath(i))
             /\ \E j \in Opened :
                  /\ Key(fire_df[j]) = Key(fire_df[i])
                  /\ files[OutputPath(i)] \in {Bytes(j), Bytes(0)}

\* Two rows with the same key and one with another have all been saved: two
\* files, the shared one holding the bytes of the second row's invocation.
C6_Witness ==
    /\ bpc = "returned"
    /\ Len(fire_df) = 3
    /\ \A i \in Futures : futures[i].save = "ok"
    /\ fire_df[1] # fire_df[2]
    /\ Key(fire_df[1]) = Key(fire_df[2])
    /\ Key(fire_df[3]) # Key(fire_df[1])
    /\ Cardinality(DOMAIN files) = 2
    /\ files[OutputPath(1)] = Bytes(2)

C7_State ==
    /\ bpc = "returned" =>
         /\ Len(futures) = Len(fire_df)
         /\ \A i \in Futures : Finished(i)
         /\ queue = <<>>
         /\ yielded = Futures
         /\ executor = "shutdown"
    /\ Hung # {} => bpc # "returned"
    /\ executor = "shutdown" => bpc \in {"returned", "raised"}

\* C7: when process_event_batch has returned, every row has been submitted,
\* every invocation has finished, none is queued or running, and the pool is
\* shut down; an invocation that hangs stays hung (nothing times it out or
\* cancels it), and while one is hung the batch has not returned.
C7_ReturnsAfterAll ==
    /\ []C7_State
    /\ [][\A i \in Hung : futures'[i].pc = "hung"]_vars

\* A batch of three rows on one worker has returned.
C7_Witness ==
    /\ bpc = "returned"
    /\ Len(fire_df) = 3
    /\ max_workers = 1
    /\ \E i \in Futures : futures[i].save = "ok"

AllSubmitted == Len(futures) = Len(fire_df)

OthersFinished == AllSubmitted /\ \A i \in Futures : i \in Hung \/ Finished(i)

WithinWorkers == Cardinality(InProgress) <= max_workers

\* C8 (as stated): for every max_workers >= 1, never more than max_workers
\* invocations are in progress, and when exactly one invocation hangs, every
\* row is submitted and every other invocation is started and finishes.
C8_OneHangBlocksNobody ==
    /\ []WithinWorkers
    /\ <>[](Cardinality(Hung) = 1) => <>OthersFinished

\* C8 (amended): the same for max_workers >= 2; with one worker the hung
\* invocation holds the only thread and the rows queued behind it never start.
C8_OneHangLeavesAWorker ==
    /\ []WithinWorkers
    /\ (max_workers >= 2 /\ <>[](Cardinality(Hung) = 1)) => <>OthersFinished

\* Two workers, three rows, the first invocation hung and the other two
\* finished.
C8_Witness ==
    /\ max_workers = 2
    /\ Len(fire_df) = 3
    /\ Hung = {1}
    /\ OthersFinished
    /\ futures[3].save = "ok"

\* The region of a patch lies inside the image.
Inside(t) == t.y >= 0 /\ t.x >= 0 /\ t.y + t.h <= image.h /\ t.x + t.w <= image.w

\* Two patches share no pixel.
Disjoint(t, u) ==
    \/ t.y + t.h <= u.y
    \/ u.y + u.h <= t.y
    \/ t.x + t.w <= u.x
    \/ u.x + u.w <= t.x

\* C9: split_into_patches returns floor(H/P) * floor(W/P) patches, each of
\* shape (P, P), at offsets that are multiples of P, inside the image and
\* pairwise disjoint; what is right of and below the last whole patch is in
\* no patch.
C9_PatchGrid ==
    ppc = "done" =>
        /\ Len(patches) = (image.h \div patch_size) * (image.w \div patch_size)
        /\ \A k \in DOMAIN patches :
             /\ patches[k].h = patch_size /\ patches[k].w = patch_size
             /\ patches[k].y % patch_size = 0 /\ patches[k].x % patch_size = 0
             /\ Inside(patches[k])
             /\ patches[k].y + patch_size <= (image.h \div patch_size) * patch_size
             /\ patches[k].x + patch_size <= (image.w \div patch_size) * patch_size
        /\ \A k, l \in DOMAIN patches : k # l => Disjoint(patches[k], patches[l])

\* A 5 x 5 image split with patch size 2: four patches, a remainder on both
\* sides.
C9_Witness ==
    /\ ppc = "done"
    /\ image = [h |-> 5, w |-> 5]
    /\ patch_size = 2
    /\ Len(patches) = 4

\* The positions of the files of category c.
Positions(c) == DOMAIN listing[Categories[c]]

FileAt(c, k) == listing[Categories[c]][k]

\* The files the run has gone past.
Passed(c, k) ==
    \/ pre_pc = "done"
    \/ c < cat
    \/ c = cat /\ pre_pc = "files" /\ k < pos

\* The tile names file (c, k) is due.
Due(c, k) ==
    {OutName(FileAt(c, k), i) :
        i \in 1..Len(SplitIntoPatches(FileAt(c, k).h, FileAt(c, k).w, patch_size))}

\* The tile names written for file (c, k).
Written(c, k) == {t.name : t \in {u \in tiles : u.from = <<c, k>>}}

\* C10: preprocess_and_patch never stops on an unreadable file: of every file
\* it has gone past, an unreadable one with an allowed extension is logged and
\* has no tile, and a readable one with an allowed extension has all its tiles
\* written, in the same folder and in the later ones; the run is never in the
\* crashed state.
C10_UnreadableSkipped ==
    /\ pre_pc # "crashed"
    /\ \A c \in DOMAIN Categories : \A k \in Positions(c) :
         Passed(c, k) /\ AllowedExt(FileAt(c, k)) =>
             IF FileAt(c, k).readable
             THEN Written(c, k) = Due(c, k) /\ <<c, k>> \notin skipped
             ELSE Written(c, k) = {} /\ <<c, k>> \in skipped

\* The run is done; the first folder held an unreadable file followed by a
\* readable one, the second folder a readable one, and both got their tiles.
C10_Witness ==
    /\ pre_pc = "done"
    /\ Len(listing["fire"]) = 2 /\ Len(listing["no_fire"]) = 1
    /\ AllowedExt(FileAt(1, 1)) /\ ~FileAt(1, 1).readable
    /\ <<1, 1>> \in skipped
    /\ Written(1, 2) # {} /\ Written(2, 1) # {}

====
